---- MODULE Spec2Model ----
(***************************************************************************)
(* Model of scripts/merge_diagnostics.py and scripts/report_diagnostics.py *)
(*                                                                         *)
(* JSON values are tagged records; a Python str is a sequence of           *)
(* one-character strings, so that str(), int(), startswith() and the "in"  *)
(* substring test are computed and not assumed.  json.load() maps JSON     *)
(* null to None, and dict.get(k) answers None for an absent key, so JNone  *)
(* stands for both.                                                        *)
(***************************************************************************)
EXTENDS Integers, Sequences, FiniteSets, TLC

-----------------------------------------------------------------------------
(* JSON values as Python sees them after json.load                         *)

JNone == [t |-> "null"]
JStr(s) == [t |-> "str", s |-> s]
JInt(n) == [t |-> "int", n |-> n]
JDict(f) == [t |-> "dict", d |-> f]
JList(l) == [t |-> "list", l |-> l]

EmptyDict == JDict([k \in {} |-> JNone])

IsDict(v) == v.t = "dict"
IsList(v) == v.t = "list"
IsStr(v) == v.t = "str"

\* dict.get(k): the value under k, None when k is absent
Get(v, k) == IF k \in DOMAIN v.d THEN v.d[k] ELSE JNone

\* dict.get(k, default)
GetDefault(v, k, default) == IF k \in DOMAIN v.d THEN v.d[k] ELSE default

\* Python truth value of a JSON value (what "or" and "if fp" test)
Truthy(v) ==
    CASE v.t = "null" -> FALSE
      [] v.t = "str" -> v.s # <<>>
      [] v.t = "int" -> v.n # 0
      [] v.t = "dict" -> DOMAIN v.d # {}
      [] v.t = "list" -> v.l # <<>>

\* Python "a or b"
PyOr(a, b) == IF Truthy(a) THEN a ELSE b

Digits == <<"0", "1", "2", "3", "4", "5", "6", "7", "8", "9">>

RECURSIVE NatToStr(_)
NatToStr(n) ==
    IF n < 10 THEN <<Digits[n + 1]>>
    ELSE NatToStr(n \div 10) \o <<Digits[(n % 10) + 1]>>

\* str() of an int: decimal digits, a leading - for a negative
IntToStr(n) == IF n < 0 THEN <<"-">> \o NatToStr(-n) ELSE NatToStr(n)

\* str() of a str, an int or None (str() of a container is not modelled:
\* no input of the model reaches it)
PyStr(v) ==
    CASE v.t = "str" -> v.s
      [] v.t = "int" -> IntToStr(v.n)
      [] v.t = "null" -> <<"N", "o", "n", "e">>

IsDigit(c) == \E k \in 1..10 : Digits[k] = c

DigitVal(c) == (CHOOSE k \in 1..10 : Digits[k] = c) - 1

RECURSIVE StripLeft(_)
StripLeft(s) == IF s # <<>> /\ Head(s) = " " THEN StripLeft(Tail(s)) ELSE s

RECURSIVE StripRight(_)
StripRight(s) ==
    IF s # <<>> /\ s[Len(s)] = " " THEN StripRight(SubSeq(s, 1, Len(s) - 1)) ELSE s

RECURSIVE DigitsVal(_)
DigitsVal(s) ==
    IF s = <<>> THEN 0 ELSE 10 * DigitsVal(SubSeq(s, 1, Len(s) - 1)) + DigitVal(s[Len(s)])

\* int(text): surrounding blanks stripped, an optional sign, then one or
\* more decimal digits; anything else raises ValueError (ok = FALSE)
ParseInt(s) ==
    LET b == StripRight(StripLeft(s))
        signed == b # <<>> /\ Head(b) \in {"+", "-"}
        body == IF signed THEN Tail(b) ELSE b
        good == body # <<>> /\ \A i \in 1..Len(body) : IsDigit(body[i])
    IN  IF ~good THEN [ok |-> FALSE, n |-> 0]
        ELSE [ok |-> TRUE,
              n |-> IF signed /\ Head(b) = "-" THEN -DigitsVal(body) ELSE DigitsVal(body)]

\* text.startswith(prefixes)
StartsWithAny(s, chars) == s # <<>> /\ Head(s) \in chars

\* sub in text
Contains(sub, s) ==
    \E i \in 0..(Len(s) - Len(sub)) : SubSeq(s, i + 1, i + Len(sub)) = sub

-----------------------------------------------------------------------------
\* Shared by both scripts

WrapperKeys == <<"problems", "diagnostics", "items", "data">>

RECURSIVE FirstListUnder(_, _)
\* the list under the first wrapper key, from position i on, whose value is a list
FirstListUnder(data, i) ==
    IF i > Len(WrapperKeys) THEN <<>>
    ELSE IF IsList(Get(data, WrapperKeys[i])) THEN SelectSeq(Get(data, WrapperKeys[i]).l, IsDict)
    ELSE FirstListUnder(data, i + 1)

extract_items(data) ==
    IF IsList(data) THEN SelectSeq(data.l, IsDict)
    ELSE IF IsDict(data) THEN FirstListUnder(data, 1)
    ELSE <<>>

\* fp = d.get("resource") or d.get("file") or d.get("uri") or d.get("path");
\* a mapping is replaced by its path, fsPath or uri
file_lookup(d) ==
    LET fp == PyOr(PyOr(PyOr(Get(d, "resource"), Get(d, "file")), Get(d, "uri")), Get(d, "path"))
    IN  IF IsDict(fp) THEN PyOr(PyOr(Get(fp, "path"), Get(fp, "fsPath")), Get(fp, "uri"))
        ELSE fp

-----------------------------------------------------------------------------
\* merge_diagnostics.py: key derivation (results are Python str)

merge_get_code(d) ==
    LET code == Get(d, "code")
    IN  IF IsDict(code) THEN PyStr(PyOr(Get(code, "value"), JStr(<<>>)))
        ELSE IF IsStr(code) THEN code.s
        ELSE <<>>

merge_get_file(d) ==
    LET fp == file_lookup(d) IN IF Truthy(fp) THEN PyStr(fp) ELSE <<>>

\* merge_get_pos reading range.start.column for range.start.character
merge_get_pos_wrong_key(d) ==
    LET line0 == Get(d, "startLineNumber")
        col0 == Get(d, "startColumn")
        r == GetDefault(d, "range", EmptyDict)
        s == IF IsDict(r) THEN GetDefault(r, "start", EmptyDict) ELSE JNone
        line == IF IsDict(r) /\ IsDict(s) THEN Get(s, "line") ELSE line0
        col == IF IsDict(r) /\ IsDict(s) THEN Get(s, "column") ELSE col0
    IN  IF line0 # JNone /\ col0 # JNone THEN <<PyStr(line0), PyStr(col0)>>
        ELSE <<IF line # JNone THEN PyStr(line) ELSE <<>>,
               IF col # JNone THEN PyStr(col) ELSE <<>> >>

merge_get_pos(d) ==
    LET line0 == Get(d, "startLineNumber")
        col0 == Get(d, "startColumn")
        r == GetDefault(d, "range", EmptyDict)
        s == IF IsDict(r) THEN GetDefault(r, "start", EmptyDict) ELSE JNone
        \* line and col are reassigned only when range and range.start are mappings
        line == IF IsDict(r) /\ IsDict(s) THEN Get(s, "line") ELSE line0
        col == IF IsDict(r) /\ IsDict(s) THEN Get(s, "character") ELSE col0
    IN  IF line0 # JNone /\ col0 # JNone THEN <<PyStr(line0), PyStr(col0)>>
        ELSE <<IF line # JNone THEN PyStr(line) ELSE <<>>,
               IF col # JNone THEN PyStr(col) ELSE <<>> >>

diag_key(d) ==
    <<merge_get_file(d), merge_get_code(d), merge_get_pos(d)[1], merge_get_pos(d)[2],
      PyStr(PyOr(Get(d, "message"), JStr(<<>>)))>>

-----------------------------------------------------------------------------
\* report_diagnostics.py: pure helpers

sanitize_csv_cell(value) ==
    LET text == IF value # JNone THEN PyStr(value) ELSE <<>>
    IN  IF StartsWithAny(text, {"=", "+", "-", "@"}) THEN <<"'">> \o text ELSE text

\* Optional[str] in the annotation, but the raw "value" of a mapping code
report_get_code(d) ==
    LET code == Get(d, "code")
    IN  IF IsDict(code) THEN Get(code, "value")
        ELSE IF IsStr(code) THEN code
        ELSE JNone

report_get_file(d) ==
    LET fp == file_lookup(d) IN IF Truthy(fp) THEN JStr(PyStr(fp)) ELSE JNone

\* to_int_or_none answering 0 where int() raises
to_int_or_zero(value) ==
    CASE value.t = "null" -> JNone
      [] value.t = "int" -> value
      [] value.t = "str" -> IF ParseInt(value.s).ok THEN JInt(ParseInt(value.s).n) ELSE JInt(0)
      [] value.t \in {"dict", "list"} -> JInt(0)

to_int_or_none(value) ==
    CASE value.t = "null" -> JNone
      [] value.t = "int" -> value
      [] value.t = "str" -> IF ParseInt(value.s).ok THEN JInt(ParseInt(value.s).n) ELSE JNone
      [] value.t \in {"dict", "list"} -> JNone

report_get_pos(d) ==
    LET line0 == Get(d, "startLineNumber")
        col0 == Get(d, "startColumn")
        r == IF IsDict(GetDefault(d, "range", EmptyDict))
             THEN GetDefault(d, "range", EmptyDict) ELSE EmptyDict
        s == IF IsDict(GetDefault(r, "start", EmptyDict))
             THEN GetDefault(r, "start", EmptyDict) ELSE EmptyDict
    IN  IF line0 # JNone /\ col0 # JNone THEN <<to_int_or_none(line0), to_int_or_none(col0)>>
        ELSE <<to_int_or_none(Get(s, "line")), to_int_or_none(Get(s, "character"))>>

\* is_valid_diagnostic_item testing the message alone
is_valid_message_only(item) == IsStr(Get(item, "message"))

is_valid_diagnostic_item(item) == IsStr(Get(item, "source")) /\ IsStr(Get(item, "message"))

-----------------------------------------------------------------------------
\* Sample texts

s_ac == <<"a", ".", "c">>
s_bc == <<"b", ".", "c">>
s_cc == <<"c", ".", "c">>
s_at == <<"@", "d">>
s_m1 == <<"m", "1">>
s_m2 == <<"m", "2">>
s_eq == <<"=", "2">>
s_c1 == <<"c", "1">>
s_plus == <<"+", "S">>
s_clangd == <<"c", "l", "a", "n", "g", "d">>
s_gcc == <<"-", "g">>
s_star == <<"*">>
s_abc == <<"a", "b", "c">>

\* Sample diagnostic records

\* position as startLineNumber/startColumn
rA ==
    JDict([file |-> JStr(s_ac), code |-> JStr(s_c1), message |-> JStr(s_m1),
           source |-> JStr(s_clangd), startLineNumber |-> JInt(5), startColumn |-> JInt(12)])

\* the same diagnostic with resource.path, code.value and range.start
rA_range ==
    JDict([resource |-> JDict([path |-> JStr(s_ac)]), code |-> JDict([value |-> JStr(s_c1)]),
           message |-> JStr(s_m1), source |-> JStr(s_clangd),
           range |-> JDict([start |-> JDict([line |-> JInt(5), character |-> JInt(12)])])])

\* the same diagnostic under uri, another source, and a range on top of the start fields
rA_uri ==
    JDict([uri |-> JStr(s_ac), code |-> JStr(s_c1), message |-> JStr(s_m1),
           source |-> JStr(s_gcc), startLineNumber |-> JInt(5), startColumn |-> JInt(12),
           range |-> JDict([start |-> JDict([line |-> JInt(0), character |-> JInt(0)])])])

\* no position, no code
rB == JDict([file |-> JStr(s_bc), message |-> JStr(s_m2), source |-> JStr(s_clangd)])

\* position 0:0, which is falsy but not None, in both conventions
rZero ==
    JDict([file |-> JStr(s_bc), message |-> JStr(s_m2), source |-> JStr(s_clangd),
           startLineNumber |-> JInt(0), startColumn |-> JInt(0)])

rZero_range ==
    JDict([file |-> JDict([fsPath |-> JStr(s_bc)]), message |-> JStr(s_m2),
           source |-> JStr(s_clangd),
           range |-> JDict([start |-> JDict([line |-> JInt(0), character |-> JInt(0)])])])

\* a lone startLineNumber beside a range that is not a mapping
rLoneBadRange ==
    JDict([file |-> JStr(s_ac), code |-> JStr(s_c1), message |-> JStr(s_m1),
           source |-> JStr(s_clangd), startLineNumber |-> JInt(7), range |-> JStr(s_abc)])

\* a lone startLineNumber and no range
rLone ==
    JDict([file |-> JStr(s_ac), code |-> JStr(s_c1), message |-> JStr(s_m1),
           source |-> JStr(s_clangd), startLineNumber |-> JInt(7)])

\* position values that int() rejects
rBadPos ==
    JDict([path |-> JStr(s_cc), message |-> JStr(s_m2), source |-> JStr(s_clangd),
           startLineNumber |-> JStr(s_abc), startColumn |-> JStr(s_m1)])

\* a negative line and a signed text column; no file
rNeg ==
    JDict([message |-> JStr(s_m1), source |-> JStr(s_gcc), code |-> JDict([value |-> JInt(-7)]),
           startLineNumber |-> JInt(-3), startColumn |-> JStr(<<" ", "+", "4">>)])

\* range.start values that int() rejects with ValueError
rBadRange ==
    JDict([file |-> JStr(s_bc), message |-> JStr(s_m1), source |-> JStr(s_clangd),
           range |-> JDict([start |-> JDict([line |-> JStr(<<"x">>),
                                             character |-> JStr(<<"-">>)])])])

\* range.start values that int() rejects with TypeError
rContainerPos ==
    JDict([file |-> JStr(s_ac), message |-> JStr(s_m2), source |-> JStr(s_clangd),
           range |-> JDict([start |-> JDict([line |-> JList(<<JInt(1)>>),
                                             character |-> EmptyDict])])])

\* cells that a spreadsheet would read as formulas
rInject ==
    JDict([source |-> JStr(s_clangd), message |-> JStr(s_eq), file |-> JStr(s_at),
           code |-> JDict([value |-> JStr(s_plus)])])

\* records that fail the validity gate
rSourceInt == JDict([source |-> JInt(123), message |-> JStr(s_m1), file |-> JStr(s_bc)])

rMessageNull == JDict([source |-> JStr(s_clangd), message |-> JNone, file |-> JStr(s_cc)])

rNoSource == JDict([message |-> JStr(s_eq), file |-> JStr(s_at)])

-----------------------------------------------------------------------------
\* merge_diagnostics.py: main

MaxFiles == 3

\* an input path: absent from disk, present but not decodable, or a JSON document
Missing == [kind |-> "missing", data |-> JNone]
Unreadable == [kind |-> "bad", data |-> JNone]
Readable(doc) == [kind |-> "ok", data |-> doc]

\* a bare list
doc_bare == JList(<<rA, rB, rZero>>)

\* a list under a wrapper key
doc_wrapped == JDict([diagnostics |-> JList(<<rA_range, rLoneBadRange>>)])

\* several wrapper keys, the first of them not a list; an element that is no mapping
doc_priority ==
    JDict([problems |-> JStr(s_abc), items |-> JList(<<rB, rA_uri, JInt(1)>>),
           data |-> JList(<<rInject>>)])

doc_mixed == JList(<<JStr(s_m1), rLone, rBadPos, rZero_range, rLone>>)

\* a mapping without a wrapper key
doc_unknown == JDict([other |-> JList(<<rA>>)])

MergeDocs == {doc_bare, doc_wrapped, doc_priority, doc_mixed, doc_unknown}

MergeInputs == {Missing, Unreadable} \cup {Readable(doc) : doc \in MergeDocs}

SeqsUpTo(S, n) == UNION {[1..k -> S] : k \in 0..n}

VARIABLES
    m_pc,        \* position in merge's main
    m_inputs,    \* the paths given on the command line
    m_no_dedup,  \* --no-dedup
    files,       \* the paths that are files
    m_fi,        \* index of the next path to read
    merged, read_ok, read_fail,
    seen, uniq,
    m_di,        \* index of the next merged record to deduplicate
    m_exit,      \* main's return value, -1 while running
    m_output     \* content of the output file, JNone while not written

mvars == <<m_pc, m_inputs, m_no_dedup, files, m_fi, merged, read_ok, read_fail,
           seen, uniq, m_di, m_exit, m_output>>

VARIABLES
    r_pc,           \* position in report's main
    r_input,        \* the file named by --input
    a_source, a_code, a_message_contains, a_version, a_day, a_max_items,
    r_data,         \* the decoded document
    items, valid_items, skipped_count,
    r_warnings,     \* the skipped counts printed as warnings
    filtered,
    per_file,       \* the Counter: files with their counts, in insertion order
    out_simple,     \* the per-file table
    out_detailed,   \* the detailed table
    r_exit          \* the process result, -1 while running

rvars == <<r_pc, r_input, a_source, a_code, a_message_contains, a_version, a_day,
           a_max_items, r_data, items, valid_items, skipped_count, r_warnings, filtered,
           per_file, out_simple, out_detailed, r_exit>>

args == <<a_source, a_code, a_message_contains, a_version, a_day, a_max_items>>

vars == <<mvars, rvars>>

IsFile(f) == f.kind # "missing"

\* lines 118-122: no path is a file
NoInputFiles ==
    /\ m_pc = "start"
    /\ SelectSeq(m_inputs, IsFile) = <<>>
    /\ m_pc' = "done"
    /\ m_exit' = 2
    /\ UNCHANGED <<m_inputs, m_no_dedup, files, m_fi, merged, read_ok, read_fail,
                   seen, uniq, m_di, m_output>>
    /\ UNCHANGED rvars

\* lines 118-126
BeginMerge ==
    /\ m_pc = "start"
    /\ SelectSeq(m_inputs, IsFile) # <<>>
    /\ files' = SelectSeq(m_inputs, IsFile)
    /\ m_pc' = "read"
    /\ UNCHANGED <<m_inputs, m_no_dedup, m_fi, merged, read_ok, read_fail,
                   seen, uniq, m_di, m_exit, m_output>>
    /\ UNCHANGED rvars

\* read_iter with read_ok counted before the read is attempted
read_iter_counts_early(st, f) ==
    IF f.kind = "ok"
    THEN [merged |-> st.merged \o extract_items(f.data),
          read_ok |-> st.read_ok + 1, read_fail |-> st.read_fail]
    ELSE [merged |-> st.merged, read_ok |-> st.read_ok + 1, read_fail |-> st.read_fail + 1]

\* one pass of the for loop of lines 128-137 over path f, on the loop's locals
read_iter(st, f) ==
    IF f.kind = "ok"
    THEN [merged |-> st.merged \o extract_items(f.data),
          read_ok |-> st.read_ok + 1, read_fail |-> st.read_fail]
    ELSE [merged |-> st.merged, read_ok |-> st.read_ok, read_fail |-> st.read_fail + 1]

ReadFile ==
    /\ m_pc = "read"
    /\ m_fi <= Len(files)
    /\ LET st == read_iter([merged |-> merged, read_ok |-> read_ok, read_fail |-> read_fail],
                           files[m_fi])
       IN  /\ merged' = st.merged
           /\ read_ok' = st.read_ok
           /\ read_fail' = st.read_fail
    /\ m_fi' = m_fi + 1
    /\ m_pc' = IF m_fi' > Len(files) THEN "dedup" ELSE "read"
    /\ UNCHANGED <<m_inputs, m_no_dedup, files, seen, uniq, m_di, m_exit, m_output>>
    /\ UNCHANGED rvars

\* lines 139-140
NoDedup ==
    /\ m_pc = "dedup"
    /\ m_no_dedup
    /\ uniq' = merged
    /\ m_pc' = "write"
    /\ UNCHANGED <<m_inputs, m_no_dedup, files, m_fi, merged, read_ok, read_fail,
                   seen, m_di, m_exit, m_output>>
    /\ UNCHANGED rvars

\* dedup_iter with the later occurrence replacing the earlier one
dedup_iter_last_wins(st, d) ==
    IF diag_key(d) \in st.seen
    THEN [seen |-> st.seen,
          uniq |-> Append(SelectSeq(st.uniq, LAMBDA u : diag_key(u) # diag_key(d)), d)]
    ELSE [seen |-> st.seen \cup {diag_key(d)}, uniq |-> Append(st.uniq, d)]

\* dedup_iter remembering only the latest key (seen = {k} for seen.add(k))
dedup_iter_latest_key(st, d) ==
    IF diag_key(d) \in st.seen THEN st
    ELSE [seen |-> {diag_key(d)}, uniq |-> Append(st.uniq, d)]

\* one pass of the for loop of lines 144-149 over record d
dedup_iter(st, d) ==
    IF diag_key(d) \in st.seen THEN st
    ELSE [seen |-> st.seen \cup {diag_key(d)}, uniq |-> Append(st.uniq, d)]

\* lines 141-149; the loop ends when merged is exhausted
DedupRecord ==
    /\ m_pc = "dedup"
    /\ ~m_no_dedup
    /\ m_di <= Len(merged)
    /\ LET st == dedup_iter([seen |-> seen, uniq |-> uniq], merged[m_di])
       IN  seen' = st.seen /\ uniq' = st.uniq
    /\ m_di' = m_di + 1
    /\ UNCHANGED <<m_pc, m_inputs, m_no_dedup, files, m_fi, merged, read_ok, read_fail,
                   m_exit, m_output>>
    /\ UNCHANGED rvars

DedupDone ==
    /\ m_pc = "dedup"
    /\ ~m_no_dedup
    /\ m_di > Len(merged)
    /\ m_pc' = "write"
    /\ UNCHANGED <<m_inputs, m_no_dedup, files, m_fi, merged, read_ok, read_fail,
                   seen, uniq, m_di, m_exit, m_output>>
    /\ UNCHANGED rvars

\* lines 151-162
WriteOutput ==
    /\ m_pc = "write"
    /\ m_output' = JList(uniq)
    /\ m_exit' = 0
    /\ m_pc' = "done"
    /\ UNCHANGED <<m_inputs, m_no_dedup, files, m_fi, merged, read_ok, read_fail,
                   seen, uniq, m_di>>
    /\ UNCHANGED rvars

MergeNext == NoInputFiles \/ BeginMerge \/ ReadFile \/ NoDedup \/ DedupRecord \/ DedupDone
                 \/ WriteOutput

RECURSIVE read_all(_, _)
read_all(st, fs) == IF fs = <<>> THEN st ELSE read_all(read_iter(st, Head(fs)), Tail(fs))

RECURSIVE dedup_all(_, _)
dedup_all(st, recs) ==
    IF recs = <<>> THEN st ELSE dedup_all(dedup_iter(st, Head(recs)), Tail(recs))

\* main as a function of its command line: the return value and the output file
merge_main(inputs, no_dedup) ==
    LET fs == SelectSeq(inputs, IsFile)
        rd == read_all([merged |-> <<>>, read_ok |-> 0, read_fail |-> 0], fs)
        out == IF no_dedup THEN rd.merged
               ELSE dedup_all([seen |-> {}, uniq |-> <<>>], rd.merged).uniq
    IN  IF fs = <<>> THEN [exit |-> 2, output |-> JNone]
        ELSE [exit |-> 0, output |-> JList(out)]

-----------------------------------------------------------------------------
\* report_diagnostics.py: main

MaxCap == 3

MAX_INPUT_SIZE_BYTES == 100 * 1024 * 1024

\* --input: no such path, or a file of some size that holds JSON or does not
NoSuchFile == [kind |-> "missing", size |-> 0, json |-> FALSE, data |-> JNone]
BadJson == [kind |-> "file", size |-> 10, json |-> FALSE, data |-> JNone]
JsonFile(size, doc) == [kind |-> "file", size |-> size, json |-> TRUE, data |-> doc]

ReportDocs ==
    { JDict([diagnostics |-> JList(<<rInject, rSourceInt, rA, rMessageNull, rA_range, rBadPos>>)]),
      JList(<<rB, rA, rNeg, rB, rA_uri, rNoSource, rInject, rLone>>),
      JList(<<rBadPos, rB, rLoneBadRange, rB, rBadPos, rA, rInject>>),
      JDict([items |-> JList(<<rBadRange, rA, rContainerPos, rBadPos, rNeg>>)]) }

ReportInputs ==
    {NoSuchFile, BadJson}
        \cup {JsonFile(10, doc) : doc \in ReportDocs}
        \cup {JsonFile(MAX_INPUT_SIZE_BYTES, JList(<<rA, rNoSource>>)),
              JsonFile(MAX_INPUT_SIZE_BYTES + 1, JList(<<rA>>))}

NotWritten == [written |-> FALSE, header |-> <<>>, rows |-> <<>>]

\* lines 108-114: os.path.getsize raises OSError
InputSizeError ==
    /\ r_pc = "start"
    /\ r_input.kind = "missing"
    /\ r_pc' = "done"
    /\ r_exit' = 2
    /\ UNCHANGED <<r_input, args, r_data, items, valid_items, skipped_count, r_warnings,
                   filtered, per_file, out_simple, out_detailed>>
    /\ UNCHANGED mvars

\* lines 116-122
InputTooLarge ==
    /\ r_pc = "start"
    /\ r_input.kind = "file"
    /\ r_input.size > MAX_INPUT_SIZE_BYTES
    /\ r_pc' = "done"
    /\ r_exit' = 2
    /\ UNCHANGED <<r_input, args, r_data, items, valid_items, skipped_count, r_warnings,
                   filtered, per_file, out_simple, out_detailed>>
    /\ UNCHANGED mvars

\* lines 124-129: json.load raises JSONDecodeError
LoadJsonError ==
    /\ r_pc = "start"
    /\ r_input.kind = "file"
    /\ r_input.size <= MAX_INPUT_SIZE_BYTES
    /\ ~r_input.json
    /\ r_pc' = "done"
    /\ r_exit' = 2
    /\ UNCHANGED <<r_input, args, r_data, items, valid_items, skipped_count, r_warnings,
                   filtered, per_file, out_simple, out_detailed>>
    /\ UNCHANGED mvars

\* lines 108-126
LoadJson ==
    /\ r_pc = "start"
    /\ r_input.kind = "file"
    /\ r_input.size <= MAX_INPUT_SIZE_BYTES
    /\ r_input.json
    /\ r_data' = r_input.data
    /\ r_pc' = "validate"
    /\ UNCHANGED <<r_input, args, items, valid_items, skipped_count, r_warnings,
                   filtered, per_file, out_simple, out_detailed, r_exit>>
    /\ UNCHANGED mvars

\* lines 131-138
Validate ==
    /\ r_pc = "validate"
    /\ items' = extract_items(r_data)
    /\ valid_items' = SelectSeq(items', is_valid_diagnostic_item)
    /\ skipped_count' = Len(items') - Len(valid_items')
    /\ r_warnings' = IF skipped_count' # 0 THEN Append(r_warnings, skipped_count')
                     ELSE r_warnings
    /\ r_pc' = "filter"
    /\ UNCHANGED <<r_input, args, r_data, filtered, per_file, out_simple, out_detailed,
                   r_exit>>
    /\ UNCHANGED mvars

\* lines 140-150
keep(d, source, code, message_contains) ==
    /\ source # s_star => Get(d, "source") = JStr(source)
    /\ code # <<>> => report_get_code(d) = JStr(code)
    /\ message_contains # <<>> =>
           Contains(message_contains, GetDefault(d, "message", JStr(<<>>)).s)

\* line 152
Filter ==
    /\ r_pc = "filter"
    /\ filtered' = SelectSeq(valid_items,
                             LAMBDA d : keep(d, a_source, a_code, a_message_contains))
    /\ r_pc' = "cap"
    /\ UNCHANGED <<r_input, args, r_data, items, valid_items, skipped_count, r_warnings,
                   per_file, out_simple, out_detailed, r_exit>>
    /\ UNCHANGED mvars

\* lines 154-156
RejectNegativeCap ==
    /\ r_pc = "cap"
    /\ a_max_items < 0
    /\ r_pc' = "done"
    /\ r_exit' = 2
    /\ UNCHANGED <<r_input, args, r_data, items, valid_items, skipped_count, r_warnings,
                   filtered, per_file, out_simple, out_detailed>>
    /\ UNCHANGED mvars

\* truncate keeping the last max_items records (filtered[-max_items:])
truncate_keeps_last(recs, max_items) ==
    IF max_items > 0
    THEN SubSeq(recs, IF max_items < Len(recs) THEN Len(recs) - max_items + 1 ELSE 1, Len(recs))
    ELSE recs

\* filtered[: max_items]
truncate(recs, max_items) ==
    IF max_items > 0
    THEN SubSeq(recs, 1, IF max_items < Len(recs) THEN max_items ELSE Len(recs))
    ELSE recs

\* lines 154-158
ApplyCap ==
    /\ r_pc = "cap"
    /\ a_max_items >= 0
    /\ filtered' = truncate(filtered, a_max_items)
    /\ r_pc' = "count"
    /\ UNCHANGED <<r_input, args, r_data, items, valid_items, skipped_count, r_warnings,
                   per_file, out_simple, out_detailed, r_exit>>
    /\ UNCHANGED mvars

\* per_file[fp] += 1 on a Counter that keeps its keys in insertion order
counter_add(c, fp) ==
    IF \E i \in 1..Len(c) : c[i].file = fp
    THEN [i \in 1..Len(c) |-> IF c[i].file = fp THEN [file |-> fp, n |-> c[i].n + 1] ELSE c[i]]
    ELSE Append(c, [file |-> fp, n |-> 1])

RECURSIVE count_per_file(_, _)
\* lines 160-164
count_per_file(c, recs) ==
    IF recs = <<>> THEN c
    ELSE count_per_file(IF report_get_file(Head(recs)) # JNone
                        THEN counter_add(c, report_get_file(Head(recs)).s)
                        ELSE c,
                        Tail(recs))

CountPerFile ==
    /\ r_pc = "count"
    /\ per_file' = count_per_file(<<>>, filtered)
    /\ r_pc' = "simple"
    /\ UNCHANGED <<r_input, args, r_data, items, valid_items, skipped_count, r_warnings,
                   filtered, out_simple, out_detailed, r_exit>>
    /\ UNCHANGED mvars

\* insert_desc putting e in front of the entries of equal count
insert_desc_before_ties(sorted, e) ==
    LET k == Cardinality({i \in 1..Len(sorted) : sorted[i].n > e.n})
    IN  SubSeq(sorted, 1, k) \o <<e>> \o SubSeq(sorted, k + 1, Len(sorted))

\* e goes behind every entry whose count is not smaller
insert_desc(sorted, e) ==
    LET k == Cardinality({i \in 1..Len(sorted) : sorted[i].n >= e.n})
    IN  SubSeq(sorted, 1, k) \o <<e>> \o SubSeq(sorted, k + 1, Len(sorted))

RECURSIVE sort_desc(_, _)
sort_desc(sorted, rest) ==
    IF rest = <<>> THEN sorted ELSE sort_desc(insert_desc(sorted, Head(rest)), Tail(rest))

\* Counter.most_common(): sorted(items, key=count, reverse=True), a stable sort
most_common(c) == sort_desc(<<>>, c)

\* what csv.writer puts in a cell: a str as it is, any other value through str()
csv_cell(v) == IF v = JNone THEN <<>> ELSE PyStr(v)

writerow(cells) == [i \in 1..Len(cells) |-> csv_cell(cells[i])]

\* line 170
simple_row(e) == writerow(<<JStr(sanitize_csv_cell(JStr(e.file))), JInt(e.n)>>)

\* lines 166-170
WriteSimple ==
    /\ r_pc = "simple"
    /\ out_simple' = [written |-> TRUE,
                      header |-> <<"day", "version", "file", "count">>,
                      rows |-> [i \in 1..Len(per_file) |-> simple_row(most_common(per_file)[i])]]
    /\ r_pc' = "detailed"
    /\ UNCHANGED <<r_input, args, r_data, items, valid_items, skipped_count, r_warnings,
                   filtered, per_file, out_detailed, r_exit>>
    /\ UNCHANGED mvars

\* lines 176-189
detailed_row(d, day, version) ==
    LET fp == PyOr(report_get_file(d), JStr(<<>>))
        line == report_get_pos(d)[1]
        col == report_get_pos(d)[2]
    IN  writerow(<<JStr(sanitize_csv_cell(JStr(day))),
                   JStr(sanitize_csv_cell(JStr(version))),
                   JStr(sanitize_csv_cell(fp)),
                   IF line # JNone THEN line ELSE JStr(<<>>),
                   IF col # JNone THEN col ELSE JStr(<<>>),
                   JStr(sanitize_csv_cell(PyOr(report_get_code(d), JStr(<<>>)))),
                   JStr(sanitize_csv_cell(GetDefault(d, "source", JStr(<<>>)))),
                   JStr(sanitize_csv_cell(GetDefault(d, "message", JStr(<<>>))))>>)

\* lines 172-189, and the end of main
WriteDetailed ==
    /\ r_pc = "detailed"
    /\ out_detailed' =
           [written |-> TRUE,
            header |-> <<"day", "version", "file", "line", "column", "code", "source",
                         "message">>,
            rows |-> [i \in 1..Len(filtered) |-> detailed_row(filtered[i], a_day, a_version)]]
    /\ r_pc' = "done"
    /\ r_exit' = 0
    /\ UNCHANGED <<r_input, args, r_data, items, valid_items, skipped_count, r_warnings,
                   filtered, per_file, out_simple>>
    /\ UNCHANGED mvars

ReportNext == InputSizeError \/ InputTooLarge \/ LoadJsonError \/ LoadJson \/ Validate
                  \/ Filter \/ RejectNegativeCap \/ ApplyCap \/ CountPerFile
                  \/ WriteSimple \/ WriteDetailed

-----------------------------------------------------------------------------
\* The two programs, each run on its own

MergeIdle ==
    /\ m_pc = "idle" /\ m_inputs = <<>> /\ m_no_dedup = FALSE /\ files = <<>> /\ m_fi = 1
    /\ merged = <<>> /\ read_ok = 0 /\ read_fail = 0 /\ seen = {} /\ uniq = <<>>
    /\ m_di = 1 /\ m_exit = -1 /\ m_output = JNone

ReportIdle ==
    /\ r_pc = "idle" /\ r_input = NoSuchFile /\ a_source = <<>> /\ a_code = <<>>
    /\ a_message_contains = <<>> /\ a_version = <<>> /\ a_day = <<>> /\ a_max_items = 0
    /\ r_data = JNone /\ items = <<>> /\ valid_items = <<>> /\ skipped_count = 0
    /\ r_warnings = <<>> /\ filtered = <<>> /\ per_file = <<>> /\ out_simple = NotWritten
    /\ out_detailed = NotWritten /\ r_exit = -1

\* merge's state after argument parsing; report does not run
MergeInit ==
    /\ m_inputs \in SeqsUpTo(MergeInputs, MaxFiles)
    /\ m_no_dedup \in BOOLEAN
    /\ m_pc = "start"
    /\ files = <<>>
    /\ m_fi = 1
    /\ merged = <<>>
    /\ read_ok = 0
    /\ read_fail = 0
    /\ seen = {}
    /\ uniq = <<>>
    /\ m_di = 1
    /\ m_exit = -1
    /\ m_output = JNone
    /\ ReportIdle

\* report's state after argument parsing; merge does not run
ReportInit ==
    /\ r_input \in ReportInputs
    /\ a_source \in {s_clangd, s_star, s_gcc}
    /\ a_code \in {<<>>, s_c1}
    /\ a_message_contains \in {<<>>, <<"1">>}
    /\ a_version \in {<<>>, <<"+", "v">>}
    /\ a_day \in {<<"d", "1">>, <<"=", "d">>}
    /\ a_max_items \in -1..MaxCap
    /\ r_pc = "start"
    /\ r_data = JNone
    /\ items = <<>>
    /\ valid_items = <<>>
    /\ skipped_count = 0
    /\ r_warnings = <<>>
    /\ filtered = <<>>
    /\ per_file = <<>>
    /\ out_simple = NotWritten
    /\ out_detailed = NotWritten
    /\ r_exit = -1
    /\ MergeIdle

SpecMerge == MergeInit /\ [][MergeNext]_vars

SpecReport == ReportInit /\ [][ReportNext]_vars

-----------------------------------------------------------------------------
\* Properties of merge (checked under SpecMerge)

Keys(recs) == {diag_key(recs[i]) : i \in 1..Len(recs)}

RECURSIVE FirstOccurrences(_)
\* the records of recs whose key no earlier record of recs has, in order
FirstOccurrences(recs) ==
    IF recs = <<>> THEN <<>>
    ELSE LET n == Len(recs)
             front == SubSeq(recs, 1, n - 1)
         IN  IF diag_key(recs[n]) \in Keys(front) THEN FirstOccurrences(front)
             ELSE Append(FirstOccurrences(front), recs[n])

RECURSIVE IsSubsequence(_, _)
IsSubsequence(a, b) ==
    IF a = <<>> THEN TRUE
    ELSE IF b = <<>> THEN FALSE
    ELSE IF Head(a) = Head(b) THEN IsSubsequence(Tail(a), Tail(b))
    ELSE IsSubsequence(a, Tail(b))

Deduplicating == ~m_no_dedup /\ m_pc \in {"dedup", "write", "done"}

Deduplicated == ~m_no_dedup /\ m_pc \in {"write", "done"} /\ m_exit # 2

\* C1: deduplication outputs exactly the first occurrence of each canonical
\* key, in the order of those first occurrences: after every pass of the loop
\* uniq holds the first occurrences of the records consumed so far, and at the
\* end uniq is a subsequence of merged, holds no key twice and holds every key
\* of merged; the output file is that list.
C1_DedupFirstOccurrences ==
    /\ Deduplicating =>
           /\ uniq = FirstOccurrences(SubSeq(merged, 1, m_di - 1))
           /\ seen = Keys(SubSeq(merged, 1, m_di - 1))
    /\ Deduplicated =>
           /\ uniq = FirstOccurrences(merged)
           /\ IsSubsequence(uniq, merged)
           /\ \A i, j \in 1..Len(uniq) : diag_key(uniq[i]) = diag_key(uniq[j]) => i = j
           /\ Keys(uniq) = Keys(merged)
    /\ (Deduplicated /\ m_pc = "done") => m_output = JList(uniq)

\* a run that dropped a duplicate lying between two records it kept
C1_Witness ==
    /\ Deduplicated
    /\ m_pc = "done"
    /\ \E i, j, k \in 1..Len(merged) :
           /\ i < j /\ j < k
           /\ diag_key(merged[i]) = diag_key(merged[j])
           /\ diag_key(merged[k]) \notin Keys(SubSeq(merged, 1, k - 1))

\* C2: merge with deduplication is idempotent: the output of a finished run
\* over inputs D is what main computes for D, and main computes the same
\* output for D followed by D, for the output file alone, and for the output
\* file given twice.
C2_MergeIdempotent ==
    (m_pc = "done" /\ ~m_no_dedup) =>
        /\ merge_main(m_inputs, FALSE) = [exit |-> m_exit, output |-> m_output]
        /\ merge_main(m_inputs \o m_inputs, FALSE) = [exit |-> m_exit, output |-> m_output]
        /\ m_exit = 0 =>
               /\ merge_main(<<Readable(m_output)>>, FALSE).output = m_output
               /\ merge_main(<<Readable(m_output), Readable(m_output)>>, FALSE).output
                      = m_output

\* a finished run over several documents that dropped duplicates and kept
\* records with different keys
C2_Witness ==
    /\ m_pc = "done" /\ ~m_no_dedup /\ m_exit = 0
    /\ Len(files) >= 2
    /\ Len(uniq) >= 3
    /\ Len(uniq) < Len(merged)

GivenAsStart(d) == Get(d, "startLineNumber") # JNone /\ Get(d, "startColumn") # JNone

GivenAsRange(d) ==
    /\ "startLineNumber" \notin DOMAIN d.d
    /\ "startColumn" \notin DOMAIN d.d
    /\ IsDict(Get(d, "range"))
    /\ IsDict(Get(Get(d, "range"), "start"))

\* a gives its position as startLineNumber/startColumn, b gives the same
\* values as range.start.line/range.start.character, and both name the same
\* file, code and message
SameDiagnosticTwoShapes(a, b) ==
    /\ GivenAsStart(a)
    /\ GivenAsRange(b)
    /\ Get(a, "startLineNumber") = Get(Get(Get(b, "range"), "start"), "line")
    /\ Get(a, "startColumn") = Get(Get(Get(b, "range"), "start"), "character")
    /\ merge_get_file(a) = merge_get_file(b)
    /\ merge_get_code(a) = merge_get_code(b)
    /\ Get(a, "message") = Get(b, "message")

\* C3: two merged records that describe the same diagnostic, one with
\* startLineNumber/startColumn and one with range.start, have equal canonical
\* keys, and the deduplicated output holds exactly one record with that key.
C3_SameKeyAcrossShapes ==
    \A i, j \in 1..Len(merged) :
        SameDiagnosticTwoShapes(merged[i], merged[j]) =>
            /\ diag_key(merged[i]) = diag_key(merged[j])
            /\ Deduplicated =>
                   Cardinality({k \in 1..Len(uniq) : diag_key(uniq[k]) = diag_key(merged[i])})
                       = 1

\* a finished run over a bare-list document and a wrapped document that hold
\* the same diagnostic in the two shapes
C3_Witness ==
    /\ Deduplicated
    /\ m_pc = "done"
    /\ \E p, q \in 1..Len(files) :
           /\ IsList(files[p].data)
           /\ IsDict(files[q].data)
           /\ \E a \in 1..Len(extract_items(files[p].data)) :
              \E b \in 1..Len(extract_items(files[q].data)) :
                  SameDiagnosticTwoShapes(extract_items(files[p].data)[a],
                                          extract_items(files[q].data)[b])

\* C4: when every input file fails to be read or parsed, merge ends with the
\* "no usable input" result 2 and writes no output list.
C4_AllUnreadableIsNoUsableInput ==
    (m_pc = "done" /\ files # <<>> /\ read_ok = 0) => (m_exit = 2 /\ m_output = JNone)

RECURSIVE ConcatReadable(_)
\* the records of the readable documents of fs, in document order
ConcatReadable(fs) ==
    IF fs = <<>> THEN <<>>
    ELSE (IF Head(fs).kind = "ok" THEN extract_items(Head(fs).data) ELSE <<>>)
             \o ConcatReadable(Tail(fs))

CountKind(fs, kind) == Cardinality({i \in 1..Len(fs) : fs[i].kind = kind})

\* C5: a document that fails to be read adds one to read_fail and nothing to
\* merged, and the loop goes on: after m_fi - 1 passes read_fail counts the
\* unreadable documents among them, read_ok the readable ones, merged is the
\* concatenation of the readable ones in document order, and after the loop
\* read_ok + read_fail is the number of input files.
C5_FailureIsolation ==
    /\ m_pc \in {"read", "dedup", "write", "done"} =>
           LET done == SubSeq(files, 1, m_fi - 1)
           IN  /\ read_fail = CountKind(done, "bad")
               /\ read_ok = CountKind(done, "ok")
               /\ merged = ConcatReadable(done)
    /\ (m_pc \in {"dedup", "write", "done"} /\ files # <<>>) =>
           /\ m_fi = Len(files) + 1
           /\ read_ok + read_fail = Len(files)
           /\ merged = ConcatReadable(files)

\* a finished run in which an unreadable document stood between two readable
\* documents that both gave records
C5_Witness ==
    /\ m_pc = "done"
    /\ m_exit = 0
    /\ \E i, j, k \in 1..Len(files) :
           /\ i < j /\ j < k
           /\ files[j].kind = "bad"
           /\ files[i].kind = "ok" /\ extract_items(files[i].data) # <<>>
           /\ files[k].kind = "ok" /\ extract_items(files[k].data) # <<>>

-----------------------------------------------------------------------------
\* Properties of report (checked under SpecReport)

HasText(d, k) == k \in DOMAIN d.d /\ d.d[k].t = "str"

\* the record lacks a string source or a string message
FailsGate(d) == ~(HasText(d, "source") /\ HasText(d, "message"))

PassesGate(d) == ~FailsGate(d)

Count(recs, Test(_)) == Cardinality({i \in 1..Len(recs) : Test(recs[i])})

\* report has extracted and validated the records of its input
Validated ==
    \/ r_pc \in {"filter", "cap", "count", "simple", "detailed"}
    \/ r_pc = "done" /\ r_data # JNone

\* the text a per-file row shows for the file of d
FileCell(d) == sanitize_csv_cell(report_get_file(d))

\* C6: a record without a string source or a string message is in neither
\* table, whatever the filters and the cap: no detailed row is the row of
\* such a record, no per-file count exceeds the number of gate-passing
\* records of that file, the filtered sequence holds none, and the skipped
\* count, which is the count warned about, is the number of extracted
\* records that fail the gate.
C6_InvalidRecordsNeverReported ==
    /\ Validated =>
           /\ items = extract_items(r_input.data)
           /\ skipped_count = Count(items, FailsGate)
           /\ r_warnings = IF skipped_count > 0 THEN <<skipped_count>> ELSE <<>>
           /\ \A i \in 1..Len(filtered) : PassesGate(filtered[i])
    /\ out_detailed.written =>
           /\ Len(out_detailed.rows) <= Count(items, PassesGate)
           /\ \A i \in 1..Len(out_detailed.rows) : \A j \in 1..Len(items) :
                  FailsGate(items[j]) =>
                      out_detailed.rows[i] # detailed_row(items[j], a_day, a_version)
    /\ out_simple.written =>
           \A i \in 1..Len(out_simple.rows) :
               LET row == out_simple.rows[i]
                   same(d) == PassesGate(d) /\ FileCell(d) = row[Len(row) - 1]
               IN  ParseInt(row[Len(row)]).n <= Count(items, same)

\* a finished run with every filter off, over a document with records that
\* fail the gate and records that pass it
C6_Witness ==
    /\ r_pc = "done" /\ r_exit = 0
    /\ a_source = s_star /\ a_code = <<>> /\ a_message_contains = <<>> /\ a_max_items = 0
    /\ skipped_count >= 2
    /\ Len(out_detailed.rows) >= 2
    /\ Len(out_simple.rows) >= 2

Neutralized(text) ==
    IF text # <<>> /\ text[1] \in {"=", "+", "-", "@"} THEN <<"'">> \o text ELSE text

\* the text of an optional value: empty for None and for a falsy value
TextOrEmpty(v) == IF Truthy(v) THEN PyStr(v) ELSE <<>>

NumberCell(v) == IF v = JNone THEN <<>> ELSE IntToStr(v.n)

\* the detailed rows: every textual cell is its value, with one ' in front
\* when it begins with =, +, - or @; line and column are plain numbers or empty
DetailedCellsNeutralized ==
    out_detailed.written =>
        /\ Len(out_detailed.rows) = Len(filtered)
        /\ \A i \in 1..Len(filtered) :
               LET d == filtered[i]
                   row == out_detailed.rows[i]
               IN  /\ Len(row) = 8
                   /\ row[1] = Neutralized(a_day)
                   /\ row[2] = Neutralized(a_version)
                   /\ row[3] = Neutralized(TextOrEmpty(report_get_file(d)))
                   /\ row[4] = NumberCell(report_get_pos(d)[1])
                   /\ row[5] = NumberCell(report_get_pos(d)[2])
                   /\ row[6] = Neutralized(TextOrEmpty(report_get_code(d)))
                   /\ row[7] = Neutralized(Get(d, "source").s)
                   /\ row[8] = Neutralized(Get(d, "message").s)

\* the per-file rows as the code writes them: the file, neutralized, and the
\* plain count
PerFileCellsNeutralized ==
    out_simple.written =>
        /\ Len(out_simple.rows) = Len(per_file)
        /\ \A i \in 1..Len(out_simple.rows) :
               LET row == out_simple.rows[i]
                   n == Len(row)
               IN  /\ n >= 2
                   /\ row[n - 1] = Neutralized(most_common(per_file)[i].file)
                   /\ row[n] = IntToStr(most_common(per_file)[i].n)

\* what the code does satisfy of C7: the cells it writes are neutralized
WrittenCellsNeutralized == DetailedCellsNeutralized /\ PerFileCellsNeutralized

\* C7: in both tables every textual cell (day, version, file, code, source,
\* message) is its value with one ' in front when the value begins with =, +,
\* - or @ and the value unchanged otherwise, and the numeric cells are never
\* prefixed; in the per-file table these are the day, version and file cells.
C7_EveryTextCellNeutralized ==
    /\ DetailedCellsNeutralized
    /\ PerFileCellsNeutralized
    /\ out_simple.written =>
           \A i \in 1..Len(out_simple.rows) :
               LET row == out_simple.rows[i]
               IN  /\ Len(row) = 4
                   /\ row[1] = Neutralized(a_day)
                   /\ row[2] = Neutralized(a_version)
                   /\ row[3] = Neutralized(most_common(per_file)[i].file)

\* both tables written for a day and a version that begin with = and +, with
\* a record whose file, code and message begin with @, + and =, and a record
\* whose source and code begin with - and whose line is negative
WrittenCellsWitness ==
    /\ out_detailed.written /\ out_simple.written
    /\ a_day[1] = "=" /\ a_version # <<>> /\ a_version[1] = "+"
    /\ \E i, j \in 1..Len(filtered) :
           /\ filtered[i] = rInject
           /\ filtered[j] = rNeg
           /\ out_detailed.rows[j][4] = <<"-", "3">>
           /\ out_detailed.rows[j][7] = <<"'", "-", "g">>
           /\ out_detailed.rows[i][8] = <<"'", "=", "2">>
    /\ \E k \in 1..Len(out_simple.rows) : out_simple.rows[k][1] = <<"'", "@", "d">>

\* C8: every data row of the per-file table has the four cells of its header:
\* day, version, file, count.
C8_PerFileRowHasFourCells ==
    out_simple.written =>
        \A i \in 1..Len(out_simple.rows) :
            LET row == out_simple.rows[i]
            IN  /\ Len(row) = Len(out_simple.header)
                /\ row[1] = Neutralized(a_day)
                /\ row[2] = Neutralized(a_version)
                /\ row[3] = Neutralized(most_common(per_file)[i].file)
                /\ row[4] = IntToStr(most_common(per_file)[i].n)

Min(a, b) == IF a < b THEN a ELSE b

\* the valid records of the input that pass the filters, before the cap
FilteredSequence ==
    SelectSeq(SelectSeq(extract_items(r_input.data), PassesGate),
              LAMBDA d : keep(d, a_source, a_code, a_message_contains))

RowsExpected ==
    IF a_max_items > 0 THEN Min(a_max_items, Len(FilteredSequence)) ELSE Len(FilteredSequence)

\* C9: with a cap N > 0 the detailed table has min(N, number of valid
\* filtered records) data rows, the rows of the first records of the filtered
\* sequence in their order; with cap 0 every valid filtered record has its row.
C9_CapKeepsFirstRecords ==
    /\ (r_pc \in {"count", "simple", "detailed"} \/ (r_pc = "done" /\ r_exit = 0)) =>
           filtered = SubSeq(FilteredSequence, 1, RowsExpected)
    /\ out_detailed.written =>
           /\ Len(out_detailed.rows) = RowsExpected
           /\ \A i \in 1..RowsExpected :
                  out_detailed.rows[i] = detailed_row(FilteredSequence[i], a_day, a_version)

\* the detailed table written under a cap smaller than the number of valid
\* filtered records, which differ from one another
C9_Witness ==
    /\ out_detailed.written
    /\ a_max_items >= 2
    /\ Len(FilteredSequence) > a_max_items + 1
    /\ Len(out_detailed.rows) = a_max_items
    /\ FilteredSequence[1] # FilteredSequence[Len(FilteredSequence)]

\* C10: with a negative cap the run ends with a non-zero result before the
\* input is loaded, validated or filtered and before a skipped-item warning;
\* the cap is not changed and no table is written.
C10_NegativeCapRejectedFirst ==
    a_max_items < 0 =>
        /\ r_pc \in {"start", "done"}
        /\ r_pc = "done" => r_exit = 2
        /\ r_data = JNone
        /\ items = <<>> /\ valid_items = <<>> /\ filtered = <<>>
        /\ r_warnings = <<>>
        /\ ~out_simple.written /\ ~out_detailed.written

\* a text that is no number: it has no digit, or a character that is neither
\* a digit, a sign nor a blank
NonNumericText(s) ==
    \/ \A i \in 1..Len(s) : ~IsDigit(s[i])
    \/ \E i \in 1..Len(s) : ~IsDigit(s[i]) /\ s[i] \notin {"+", "-", " "}

NonNumeric(v) == (v.t = "str" /\ NonNumericText(v.s)) \/ v.t \in {"dict", "list"}

\* both position fields of d, in either convention, are non-numeric
NonNumericPosition(d) ==
    \/ /\ GivenAsStart(d)
       /\ NonNumeric(Get(d, "startLineNumber"))
       /\ NonNumeric(Get(d, "startColumn"))
    \/ /\ GivenAsRange(d)
       /\ NonNumeric(Get(Get(Get(d, "range"), "start"), "line"))
       /\ NonNumeric(Get(Get(Get(d, "range"), "start"), "character"))

Reported == SubSeq(FilteredSequence, 1, RowsExpected)

\* the derived file of d, empty when there is none
FileOf(d) == TextOrEmpty(report_get_file(d))

ReportedFiles == {FileOf(Reported[i]) : i \in 1..Len(Reported)} \ {<<>>}

CountOfFile(f) == Cardinality({i \in 1..Len(Reported) : FileOf(Reported[i]) = f})

FirstSeen(f) == CHOOSE i \in 1..Len(Reported) :
                    /\ FileOf(Reported[i]) = f
                    /\ \A j \in 1..(i - 1) : FileOf(Reported[j]) # f

\* in a per-file row the count is the last cell and the file the one before it
RowFileCell(row) == row[Len(row) - 1]

RowCount(row) == ParseInt(row[Len(row)]).n

\* the file whose row this is
RowFile(row) == CHOOSE f \in ReportedFiles : Neutralized(f) = RowFileCell(row)

RECURSIVE SumCounts(_)
SumCounts(rows) == IF rows = <<>> THEN 0 ELSE RowCount(Head(rows)) + SumCounts(Tail(rows))

\* C12: the per-file table has one row for each distinct non-empty file of
\* the valid, filtered, truncated records, with the number of those records
\* that have the file; the rows are in descending order of count, equal
\* counts in first-seen order; records without a file are left out of this
\* table only, so the counts add up to the number of detailed rows with a
\* non-empty file cell.
C12_PerFileCounts ==
    /\ out_simple.written =>
           LET rows == out_simple.rows
           IN  /\ Len(rows) = Cardinality(ReportedFiles)
               /\ \A i \in 1..Len(rows) :
                      /\ Len(rows[i]) >= 2
                      /\ \E f \in ReportedFiles : Neutralized(f) = RowFileCell(rows[i])
                      /\ rows[i][Len(rows[i])] = IntToStr(CountOfFile(RowFile(rows[i])))
               /\ \A f \in ReportedFiles :
                      Cardinality({i \in 1..Len(rows) : RowFileCell(rows[i]) = Neutralized(f)}) = 1
               /\ \A i, j \in 1..Len(rows) :
                      i < j =>
                          \/ RowCount(rows[i]) > RowCount(rows[j])
                          \/ /\ RowCount(rows[i]) = RowCount(rows[j])
                             /\ FirstSeen(RowFile(rows[i])) < FirstSeen(RowFile(rows[j]))
               /\ SumCounts(rows) = Cardinality({i \in 1..Len(Reported) : FileOf(Reported[i]) # <<>>})
    /\ (out_simple.written /\ out_detailed.written) =>
           /\ Len(out_detailed.rows) = Len(Reported)
           /\ SumCounts(out_simple.rows)
                  = Cardinality({i \in 1..Len(out_detailed.rows) : out_detailed.rows[i][3] # <<>>})

\* both tables written where a file seen later has the larger count and comes
\* first, two files have equal counts, and a record without a file has a
\* detailed row
C12_Witness ==
    /\ out_simple.written /\ out_detailed.written
    /\ Len(out_simple.rows) >= 3
    /\ \E i, j \in 1..Len(out_simple.rows) :
           /\ i < j
           /\ RowCount(out_simple.rows[i]) > RowCount(out_simple.rows[j])
           /\ FirstSeen(RowFile(out_simple.rows[i])) > FirstSeen(RowFile(out_simple.rows[j]))
    /\ \E i, j \in 1..Len(out_simple.rows) :
           i < j /\ RowCount(out_simple.rows[i]) = RowCount(out_simple.rows[j])
    /\ \E i \in 1..Len(out_detailed.rows) : out_detailed.rows[i][3] = <<>>

\* range.start when range and range.start are mappings, an empty mapping otherwise
RangeStart(d) ==
    IF IsDict(Get(d, "range")) /\ IsDict(Get(Get(d, "range"), "start"))
    THEN Get(Get(d, "range"), "start")
    ELSE EmptyDict

\* the two values the position comes from: the start pair when both are
\* present, range.start.line and range.start.character otherwise
PositionSource(d) ==
    IF GivenAsStart(d) THEN <<Get(d, "startLineNumber"), Get(d, "startColumn")>>
    ELSE <<Get(RangeStart(d), "line"), Get(RangeStart(d), "character")>>

KeyText(v) == IF v = JNone THEN <<>> ELSE PyStr(v)

\* the line and column of merge's key come from PositionSource
MergePositionFromSource ==
    \A i \in 1..Len(merged) :
        /\ diag_key(merged[i])[3] = KeyText(PositionSource(merged[i])[1])
        /\ diag_key(merged[i])[4] = KeyText(PositionSource(merged[i])[2])

\* the line and column cells of report's rows come from PositionSource
ReportPositionFromSource ==
    out_detailed.written =>
        \A i \in 1..Len(out_detailed.rows) :
            /\ out_detailed.rows[i][4] = NumberCell(to_int_or_none(PositionSource(filtered[i])[1]))
            /\ out_detailed.rows[i][5] = NumberCell(to_int_or_none(PositionSource(filtered[i])[2]))

\* C13: in merge's key and in report's rows the position is
\* startLineNumber/startColumn only when both are present; when either is
\* absent, line and column both come from range.start.line and
\* range.start.character alone, empty when range or range.start is missing
\* or no mapping: a lone startLineNumber or startColumn contributes nothing.
C13_LoneStartFieldNeverUsed == MergePositionFromSource /\ ReportPositionFromSource

\* report has written a row for a record with a lone startLineNumber beside
\* a range that is no mapping
ReportLoneStartWitness ==
    /\ out_detailed.written
    /\ \E i \in 1..Len(filtered) :
           /\ filtered[i] = rLoneBadRange
           /\ out_detailed.rows[i][4] = <<>>

\* d with its startLineNumber and startColumn replaced by l and c
WithStart(d, l, c) ==
    JDict([k \in DOMAIN d.d \cup {"startLineNumber", "startColumn"} |->
              IF k = "startLineNumber" THEN l
              ELSE IF k = "startColumn" THEN c
              ELSE d.d[k]])

\* position values that are present and cannot be coerced to an integer
NonCoercibleValues ==
    {v \in {JStr(s_abc), JStr(s_m1), JStr(s_star), JStr(s_c1)} : to_int_or_none(v) = JNone}

\* d names no lone start field: both are present, or neither is a key of d
StartPairOrNone(d) ==
    \/ GivenAsStart(d)
    \/ "startLineNumber" \notin DOMAIN d.d /\ "startColumn" \notin DOMAIN d.d

\* C14: for every record the line and column of merge's key are the
\* integer-coerced position values written as text, empty when a value is
\* absent or cannot be coerced; so they equal the line and column cells the
\* report writes for the record, and records that differ only in
\* non-coercible position values have the same key.
C14_KeyPositionIsCoercedInteger ==
    \A i \in 1..Len(merged) :
        LET d == merged[i] IN
        /\ StartPairOrNone(d) =>
               /\ diag_key(d)[3] = NumberCell(to_int_or_none(PositionSource(d)[1]))
               /\ diag_key(d)[4] = NumberCell(to_int_or_none(PositionSource(d)[2]))
               /\ diag_key(d)[3] = NumberCell(report_get_pos(d)[1])
               /\ diag_key(d)[4] = NumberCell(report_get_pos(d)[2])
        /\ \A l1, c1, l2, c2 \in NonCoercibleValues :
               diag_key(WithStart(d, l1, c1)) = diag_key(WithStart(d, l2, c2))

\* the key components of the records with coercible or absent position
\* values (canonical integers, or nothing) do equal the report's cells
CanonicalPosition(d) ==
    \A i \in 1..2 : PositionSource(d)[i].t \in {"null", "int"}

KeyEqualsReportCellsWhenCanonical ==
    \A i \in 1..Len(merged) :
        (StartPairOrNone(merged[i]) /\ CanonicalPosition(merged[i])) =>
            /\ diag_key(merged[i])[3] = NumberCell(report_get_pos(merged[i])[1])
            /\ diag_key(merged[i])[4] = NumberCell(report_get_pos(merged[i])[2])

====
